---- MODULE Spec2Model ----
(***************************************************************************)
(* Model of read-data.py: the attribute reader (read_width_and_height),    *)
(* the timestamp and frame readers (read_timestamp, read_frame), the       *)
(* layout/metrics computation (read_file_info) and the extraction loop     *)
(* (read_data).                                                            *)
(*                                                                         *)
(* A file is its size and its bytes; a file descriptor is its state        *)
(* (unbound / open / closed) and its position.  One call of read_data is   *)
(* stepped statement by statement by the program counter pc; a call ends   *)
(* by returning, by raising, or by the process being killed, and read_data *)
(* may then be called again on the same files and the same out_dir.        *)
(*                                                                         *)
(* Python exceptions are modelled by their class name.  struct.error is    *)
(* a direct subclass of Exception: the handlers for OSError, IOError and   *)
(* ValueError do not catch it, nor ZeroDivisionError or UnboundLocalError. *)
(***************************************************************************)
EXTENDS Integers, Sequences, FiniteSets, TLC

(* ------------------------------ bounds -------------------------------- *)
\* largest width and height stored in the attribute file
MaxDim == 2
\* data files of 0..MaxFileSize bytes
MaxFileSize == 88
\* out_dir may hold NNNN.png for indices below MaxMat before the first call
MaxMat == 3
\* calls of read_data on the same files
MaxRuns == 2
\* read_timestamp alone is started at positions 0..MaxTsPos
MaxTsPos == 20
\* bytes of the data file are 0..ByteRange-1 (below 128, so that an unsigned
\* 32-bit field stays below 2^31)
ByteRange == 100

(* ---------------------------- constants ------------------------------- *)
HEADER_SIZE == 40
\* default arguments of read_width_and_height
WIDTH_POS == 19
HEIGHT_POS == 37
\* bytes of one timestamp record: three 4-byte fields
TS_SIZE == 12

VARIABLES
    attrSize,      \* size of the attribute file
    attrAt19,      \* 16-bit value stored at offset 19 of the attribute file
    attrAt37,      \* 16-bit value stored at offset 37 of the attribute file
    fileSize,      \* size of the data file
    pattern,       \* content of the data file: byte k is (pattern * k + 7) % ByteRange
    materialized,  \* indices i for which out_dir/NNNN.png exists
    pc,            \* next statement of the running call
    run,           \* number of the call of read_data (1..MaxRuns)
    attrHandle,    \* file_handle of read_width_and_height
    dataHandle,    \* file_handle of read_data
    pos,           \* position of the data file descriptor
    width, height, \* locals of read_data (line 260)
    info,          \* locals, then result, of read_file_info
    i,             \* loop variable of read_data
    ts, frame,     \* locals of the loop body
    exc,           \* exception being raised ("none" when none)
    outcome,       \* how the call ended: "running", "returned", "raised", "killed"
    hist,          \* history of the call, for stating the properties
    sinkSeq,       \* frames handed to image.save in this call, in order
    tsCall         \* one isolated call of read_timestamp (specification SpecTS)

vars == <<attrSize, attrAt19, attrAt37, fileSize, pattern, materialized, pc, run,
          attrHandle, dataHandle, pos, width, height, info, i, ts, frame, exc,
          outcome, hist, sinkSeq, tsCall>>

fileVars == <<attrSize, attrAt19, attrAt37, fileSize, pattern>>

Min(a, b) == IF a < b THEN a ELSE b

(* ------------------------- files and os calls ------------------------- *)
\* byte k of the data file
FileByte(k) == (pattern * k + 7) % ByteRange

\* byte k of the attribute file: two little-endian 16-bit fields, zero elsewhere
AttrByte(k) ==
    IF k = WIDTH_POS THEN attrAt19 % 256
    ELSE IF k = WIDTH_POS + 1 THEN attrAt19 \div 256
    ELSE IF k = HEIGHT_POS THEN attrAt37 % 256
    ELSE IF k = HEIGHT_POS + 1 THEN attrAt37 \div 256
    ELSE 0

\* os.read(fd, n) on a regular file of `size` bytes at position p: the number
\* of bytes returned (fewer than n, possibly none, at the end of the file)
OsReadLen(size, p, n) == IF p >= size THEN 0 ELSE Min(n, size - p)

\* the bytes os.read returns from the data file
OsReadData(p, n) == [k \in 1..OsReadLen(fileSize, p, n) |-> FileByte(p + k - 1)]

\* the bytes os.read returns from the attribute file
OsReadAttr(p, n) == [k \in 1..OsReadLen(attrSize, p, n) |-> AttrByte(p + k - 1)]

\* struct.unpack('<I', b)[0] for a 4-byte b
UnpackU32(b) == b[1] + 256 * b[2] + 65536 * b[3] + 16777216 * b[4]

\* struct.unpack('H', b)[0] for a 2-byte b (native order of a little-endian host)
UnpackU16(b) == b[1] + 256 * b[2]

(* --------------------------- read_timestamp --------------------------- *)
\* the loop of lines 101-103 from its k-th iteration at position p with the
\* fields read so far: the exception raised (if any), the position the
\* descriptor is left at, and the fields read
RECURSIVE TsLoop(_, _, _)
TsLoop(p, k, acc) ==
    IF k = 3 THEN [exc |-> "none", pos |-> p, ts |-> acc]
    ELSE LET b == OsReadData(p, 4)
         IN  IF Len(b) # 4
             THEN [exc |-> "struct.error", pos |-> p + Len(b), ts |-> acc]
             ELSE TsLoop(p + 4, k + 1, Append(acc, UnpackU32(b)))

\* read_timestamp(file_handle, reset_location) called at position p
read_timestamp(p, reset_location) ==
    LET r == TsLoop(p, 0, <<>>)
    IN  IF r.exc = "none" /\ reset_location THEN [r EXCEPT !.pos = p] ELSE r

(* ----------------------------- read_frame ----------------------------- *)
\* read_frame(file_handle, width, height) called at position p: the list of
\* the bytes os.read returned and the position afterwards
read_frame(p, w, h) ==
    LET b == OsReadData(p, w * h)
    IN  [data |-> b, pos |-> p + Len(b)]

(* ------------------------ layout and metrics -------------------------- *)
\* int(a / b) for b > 0: Python truncates the quotient toward zero
TruncDiv(a, b) == IF a >= 0 THEN a \div b ELSE -((-a) \div b)

\* line 192 with the record cut off by the end of the file counted as a frame
Frames_OffByOne(pos_first, pos_last, w, h) ==
    TruncDiv(pos_last - pos_first, w * h + TS_SIZE) + 2

\* line 192
Frames(pos_first, pos_last, w, h) ==
    TruncDiv(pos_last - pos_first, w * h + TS_SIZE) + 1

\* line 283 with the 12 bytes of the timestamp forgotten
SkipAdvance_NoTimestamp(w, h) == w * h

\* the advance of a skipped record, line 283
SkipAdvance(w, h) == w * h + TS_SIZE

\* line 281 with the check lost: no output is ever found
Exists_Never(idx) == FALSE

\* os.path.exists(image_filename), line 281
Exists(idx) == idx \in materialized

\* line 279 with the loop one iteration short
HasNext_OneShort(idx, frames) == idx < frames - 1

\* the loop test of range(file_info.frames), line 279
HasNext(idx, frames) == idx < frames

NoInfo == [state |-> "none"]
NoTs == <<>>
NoFrame == <<>>
NoTsCall == [state |-> "none"]

\* the history of a call that starts with the outputs m on disk; mat0 is what
\* was on disk before the first call
NewHist(m, m0) ==
    [ioFault |-> FALSE, raised |-> FALSE, swallowed |-> FALSE,
     cleanupRaised |-> FALSE, attrOpens |-> 0, attrCloses |-> 0,
     dataOpens |-> 0, dataCloses |-> 0, matStart |-> m, mat0 |-> m0,
     iterPos |-> <<>>, skipped |-> {}]

(* ------------------------------- Init --------------------------------- *)
\* attribute files cut inside the first field, inside the second field, and whole
AttrSizes == {WIDTH_POS + 1, HEIGHT_POS + 1, HEIGHT_POS + 2}

\* the locals of a call that has not started
LocalsInit ==
    /\ attrHandle = "unbound"
    /\ dataHandle = "unbound"
    /\ pos = 0
    /\ width = 0
    /\ height = 0
    /\ info = NoInfo
    /\ i = 0
    /\ ts = NoTs
    /\ frame = NoFrame
    /\ exc = "none"
    /\ sinkSeq = <<>>

Init ==
    /\ attrSize \in AttrSizes
    /\ attrAt19 \in 1..MaxDim
    /\ attrAt37 \in 1..MaxDim
    /\ fileSize \in 0..MaxFileSize
    /\ pattern \in {0, 1}
    /\ materialized \in SUBSET (0..(MaxMat - 1))
    /\ pc = "rwh_open"
    /\ run = 1
    /\ outcome = "running"
    /\ hist = NewHist(materialized, materialized)
    /\ tsCall = NoTsCall
    /\ LocalsInit

(* ------------------------ read_width_and_height ------------------------ *)
\* an exception raised in an action; fault tells that the environment (a
\* failing open, seek, read or save) caused it, not the files' sizes
HistRaise(h, fault) == [h EXCEPT !.raised = TRUE, !.ioFault = @ \/ fault]

\* line 64: os.open(attr_file)
RwhOpen ==
    /\ pc = "rwh_open"
    /\ \E fault \in BOOLEAN :
         IF fault
         THEN /\ exc' = "OSError"
              /\ hist' = HistRaise(hist, TRUE)
              /\ pc' = "rwh_finally"
              /\ UNCHANGED attrHandle
         ELSE /\ attrHandle' = "open"
              /\ hist' = [hist EXCEPT !.attrOpens = @ + 1]
              /\ pc' = "rwh_height"
              /\ UNCHANGED exc
    /\ UNCHANGED <<fileVars, materialized, run, dataHandle, pos, width, height,
                   info, i, ts, frame, outcome, sinkSeq, tsCall>>

\* lines 66-67: the field at width_pos is bound to height
RwhHeight ==
    /\ pc = "rwh_height"
    /\ \E fault \in BOOLEAN :
         LET b == OsReadAttr(WIDTH_POS, 2)
         IN  IF fault \/ Len(b) # 2
             THEN /\ exc' = (IF fault THEN "OSError" ELSE "struct.error")
                  /\ hist' = HistRaise(hist, fault)
                  /\ pc' = "rwh_finally"
                  /\ UNCHANGED height
             ELSE /\ height' = UnpackU16(b)
                  /\ pc' = "rwh_width"
                  /\ UNCHANGED <<exc, hist>>
    /\ UNCHANGED <<fileVars, materialized, run, attrHandle, dataHandle, pos, width,
                   info, i, ts, frame, outcome, sinkSeq, tsCall>>

\* lines 71-72: the field at height_pos is bound to width
RwhWidth ==
    /\ pc = "rwh_width"
    /\ \E fault \in BOOLEAN :
         LET b == OsReadAttr(HEIGHT_POS, 2)
         IN  IF fault \/ Len(b) # 2
             THEN /\ exc' = (IF fault THEN "OSError" ELSE "struct.error")
                  /\ hist' = HistRaise(hist, fault)
                  /\ pc' = "rwh_finally"
                  /\ UNCHANGED width
             ELSE /\ width' = UnpackU16(b)
                  /\ pc' = "rwh_finally"
                  /\ UNCHANGED <<exc, hist>>
    /\ UNCHANGED <<fileVars, materialized, run, attrHandle, dataHandle, pos, height,
                   info, i, ts, frame, outcome, sinkSeq, tsCall>>

\* lines 75-84: the handlers re-raise the same class, then os.close(file_handle)
\* runs; file_handle is unbound when os.open raised.  read_data calls this
\* function outside its try statement (line 260): what it raises, read_data raises
RwhFinally ==
    /\ pc = "rwh_finally"
    /\ IF attrHandle = "unbound"
       THEN /\ exc' = "UnboundLocalError"
            /\ hist' = [hist EXCEPT !.raised = TRUE, !.cleanupRaised = TRUE]
            /\ UNCHANGED attrHandle
       ELSE /\ attrHandle' = "closed"
            /\ hist' = [hist EXCEPT !.attrCloses = @ + 1]
            /\ UNCHANGED exc
    /\ IF exc' # "none"
       THEN pc' = "exit" /\ outcome' = "raised"
       ELSE pc' = "open" /\ outcome' = outcome
    /\ UNCHANGED <<fileVars, materialized, run, dataHandle, pos, width, height,
                   info, i, ts, frame, sinkSeq, tsCall>>

(* ------------------------------ read_data ------------------------------ *)
\* lines 297-302: the classes the handlers of read_data catch (IOError is OSError)
Caught(e) == e \in {"OSError", "ValueError"}

\* where an exception raised in the try block of read_data goes next
TryTarget(e) == IF Caught(e) THEN "except" ELSE "finally"

\* line 263: os.open(data_file)
DataOpen ==
    /\ pc = "open"
    /\ \E fault \in BOOLEAN :
         IF fault
         THEN /\ exc' = "OSError"
              /\ hist' = HistRaise(hist, TRUE)
              /\ pc' = TryTarget("OSError")
              /\ UNCHANGED <<dataHandle, pos>>
         ELSE /\ dataHandle' = "open"
              /\ pos' = 0
              /\ hist' = [hist EXCEPT !.dataOpens = @ + 1]
              /\ pc' = "info_first"
              /\ UNCHANGED exc
    /\ UNCHANGED <<fileVars, materialized, run, attrHandle, width, height, info,
                   i, ts, frame, outcome, sinkSeq, tsCall>>

\* one call of read_timestamp(file_handle) inside read_file_info after a seek to
\* position p: on success the fields are stored under `field` and the function
\* goes on at `next`
InfoReadTs(p, field, next) ==
    \E fault \in BOOLEAN :
      LET r == read_timestamp(p, FALSE)
      IN  IF fault
          THEN /\ exc' = "OSError"
               /\ hist' = HistRaise(hist, TRUE)
               /\ pc' = TryTarget("OSError")
               /\ UNCHANGED <<pos, info>>
          ELSE IF r.exc # "none"
          THEN /\ exc' = r.exc
               /\ hist' = HistRaise(hist, FALSE)
               /\ pc' = TryTarget(r.exc)
               /\ pos' = r.pos
               /\ UNCHANGED info
          ELSE /\ pos' = r.pos
               /\ info' = [k \in (DOMAIN info) \cup {field} |->
                             IF k = field THEN r.ts
                             ELSE IF k = "state" THEN field ELSE info[k]]
               /\ pc' = next
               /\ UNCHANGED <<exc, hist>>

\* lines 171-175 of read_file_info: seek to HEADER_SIZE, read the first timestamp
InfoFirst ==
    /\ pc = "info_first"
    /\ InfoReadTs(HEADER_SIZE, "ts_first", "info_second")
    /\ UNCHANGED <<fileVars, materialized, run, attrHandle, dataHandle, width,
                   height, i, ts, frame, outcome, sinkSeq, tsCall>>

\* lines 178-179: skip width*height bytes, read the second timestamp
InfoSecond ==
    /\ pc = "info_second"
    /\ InfoReadTs(pos + width * height, "ts_second", "info_last")
    /\ UNCHANGED <<fileVars, materialized, run, attrHandle, dataHandle, width,
                   height, i, ts, frame, outcome, sinkSeq, tsCall>>

\* lines 182-183: seek one record before the end (os.lseek raises OSError for a
\* negative position), read the last timestamp
InfoLast ==
    /\ pc = "info_last"
    /\ IF fileSize - (width * height + TS_SIZE) < 0
       THEN /\ exc' = "OSError"
            /\ hist' = HistRaise(hist, FALSE)
            /\ pc' = TryTarget("OSError")
            /\ UNCHANGED <<pos, info>>
       ELSE InfoReadTs(fileSize - (width * height + TS_SIZE), "ts_last", "info_metrics")
    /\ UNCHANGED <<fileVars, materialized, run, attrHandle, dataHandle, width,
                   height, i, ts, frame, outcome, sinkSeq, tsCall>>

\* lines 186-217 (and the report of lines 266-276): dt, dt_total, frames, fps,
\* duration.  The division of line 195 raises ZeroDivisionError for dt_total = 0.
\* fps is kept as the fraction (frames-1)*10^6 / dt_total, duration in microseconds
InfoMetrics ==
    /\ pc = "info_metrics"
    /\ LET pos_first == HEADER_SIZE
           pos_last == fileSize - (width * height + TS_SIZE)
           dt == info.ts_second[1] - info.ts_first[1]
           dt_total == info.ts_last[1] - info.ts_first[1]
           frames == Frames(pos_first, pos_last, width, height)
           base == [state |-> "raised", width |-> width, height |-> height,
                    ts_first |-> info.ts_first, ts_second |-> info.ts_second,
                    ts_last |-> info.ts_last, dt |-> dt, dt_total |-> dt_total,
                    frames |-> frames, pos_first |-> pos_first,
                    pos_last |-> pos_last]
       IN  IF dt_total = 0
           THEN /\ exc' = "ZeroDivisionError"
                /\ hist' = HistRaise(hist, FALSE)
                /\ pc' = TryTarget("ZeroDivisionError")
                /\ info' = base
           ELSE /\ info' = [k \in (DOMAIN base) \cup {"fps", "duration"} |->
                              IF k = "state" THEN "returned"
                              ELSE IF k = "fps"
                                   THEN [defined |-> TRUE,
                                         num |-> (frames - 1) * 1000000,
                                         den |-> dt_total]
                              ELSE IF k = "duration" THEN dt_total + dt
                              ELSE base[k]]
                /\ pc' = "loop_seek"
                /\ UNCHANGED <<exc, hist>>
    /\ UNCHANGED <<fileVars, materialized, run, attrHandle, dataHandle, pos, width,
                   height, i, ts, frame, outcome, sinkSeq, tsCall>>

\* line 278: seek to the first record
LoopSeek ==
    /\ pc = "loop_seek"
    /\ \E fault \in BOOLEAN :
         IF fault
         THEN /\ exc' = "OSError"
              /\ hist' = HistRaise(hist, TRUE)
              /\ pc' = TryTarget("OSError")
              /\ UNCHANGED <<pos, i>>
         ELSE /\ pos' = info.pos_first
              /\ i' = 0
              /\ pc' = "loop_test"
              /\ UNCHANGED <<exc, hist>>
    /\ UNCHANGED <<fileVars, materialized, run, attrHandle, dataHandle, width,
                   height, info, ts, frame, outcome, sinkSeq, tsCall>>

\* line 279: the next index of range(frames), or the end of the loop
LoopTest ==
    /\ pc = "loop_test"
    /\ IF HasNext(i, info.frames)
       THEN /\ pc' = "loop_body"
            /\ hist' = [hist EXCEPT !.iterPos = Append(@, pos)]
       ELSE /\ pc' = "finally"
            /\ UNCHANGED hist
    /\ UNCHANGED <<fileVars, materialized, run, attrHandle, dataHandle, pos, width,
                   height, info, i, ts, frame, exc, outcome, sinkSeq, tsCall>>

\* lines 280-284: the output exists: seek past the record
LoopSkip ==
    /\ pc = "loop_body"
    /\ Exists(i)
    /\ \E fault \in BOOLEAN :
         IF fault
         THEN /\ exc' = "OSError"
              /\ hist' = HistRaise(hist, TRUE)
              /\ pc' = TryTarget("OSError")
              /\ UNCHANGED <<pos, i>>
         ELSE /\ pos' = pos + SkipAdvance(width, height)
              /\ i' = i + 1
              /\ hist' = [hist EXCEPT !.skipped = @ \cup {i}]
              /\ pc' = "loop_test"
              /\ UNCHANGED exc
    /\ UNCHANGED <<fileVars, materialized, run, attrHandle, dataHandle, width,
                   height, info, ts, frame, outcome, sinkSeq, tsCall>>

\* line 286: ts = read_timestamp(file_handle)
LoopReadTs ==
    /\ pc = "loop_body"
    /\ ~Exists(i)
    /\ \E fault \in BOOLEAN :
         LET r == read_timestamp(pos, FALSE)
         IN  IF fault \/ r.exc # "none"
             THEN /\ exc' = (IF fault THEN "OSError" ELSE r.exc)
                  /\ hist' = HistRaise(hist, fault)
                  /\ pc' = TryTarget(exc')
                  /\ pos' = (IF fault THEN pos ELSE r.pos)
                  /\ UNCHANGED ts
             ELSE /\ ts' = r.ts
                  /\ pos' = r.pos
                  /\ pc' = "loop_frame"
                  /\ UNCHANGED <<exc, hist>>
    /\ UNCHANGED <<fileVars, materialized, run, attrHandle, dataHandle, width,
                   height, info, i, frame, outcome, sinkSeq, tsCall>>

\* line 287: frame = read_frame(file_handle, width, height); the length of what
\* os.read returned is not looked at
LoopReadFrame ==
    /\ pc = "loop_frame"
    /\ \E fault \in BOOLEAN :
         LET r == read_frame(pos, width, height)
         IN  IF fault
             THEN /\ exc' = "OSError"
                  /\ hist' = HistRaise(hist, TRUE)
                  /\ pc' = TryTarget("OSError")
                  /\ UNCHANGED <<pos, frame>>
             ELSE /\ frame' = r.data
                  /\ pos' = r.pos
                  /\ pc' = "loop_sink"
                  /\ UNCHANGED <<exc, hist>>
    /\ UNCHANGED <<fileVars, materialized, run, attrHandle, dataHandle, width,
                   height, info, i, ts, outcome, sinkSeq, tsCall>>

\* lines 289-294: the image is built from the frame (putdata accepts a list
\* shorter than the image) and saved as NNNN.png.  A failing save raises OSError
\* and may leave the file behind
LoopSink ==
    /\ pc = "loop_sink"
    /\ sinkSeq' = Append(sinkSeq, [index |-> i, ts |-> ts, data |-> frame])
    /\ \E fault \in BOOLEAN, left \in BOOLEAN :
         IF fault
         THEN /\ exc' = "OSError"
              /\ hist' = HistRaise(hist, TRUE)
              /\ pc' = TryTarget("OSError")
              /\ materialized' = (IF left THEN materialized \cup {i} ELSE materialized)
              /\ UNCHANGED i
         ELSE /\ left
              /\ materialized' = materialized \cup {i}
              /\ i' = i + 1
              /\ pc' = "loop_test"
              /\ UNCHANGED <<exc, hist>>
    /\ UNCHANGED <<fileVars, run, attrHandle, dataHandle, pos, width, height, info,
                   ts, frame, outcome, tsCall>>

\* lines 297-302: the handler prints the exception; nothing is re-raised
Except ==
    /\ pc = "except"
    /\ exc' = "none"
    /\ hist' = [hist EXCEPT !.swallowed = TRUE]
    /\ pc' = "finally"
    /\ UNCHANGED <<fileVars, materialized, run, attrHandle, dataHandle, pos, width,
                   height, info, i, ts, frame, outcome, sinkSeq, tsCall>>

\* lines 303-304: os.close(file_handle); file_handle is unbound when os.open
\* raised.  Then the call returns None, or the pending exception goes on
Finally ==
    /\ pc = "finally"
    /\ IF dataHandle = "unbound"
       THEN /\ exc' = "UnboundLocalError"
            /\ hist' = [hist EXCEPT !.raised = TRUE, !.cleanupRaised = TRUE]
            /\ UNCHANGED dataHandle
       ELSE /\ dataHandle' = "closed"
            /\ hist' = [hist EXCEPT !.dataCloses = @ + 1]
            /\ UNCHANGED exc
    /\ outcome' = (IF exc' # "none" THEN "raised" ELSE "returned")
    /\ pc' = "exit"
    /\ UNCHANGED <<fileVars, materialized, run, attrHandle, pos, width, height,
                   info, i, ts, frame, sinkSeq, tsCall>>

(* ------------------------- the calling process ------------------------- *)
\* the locals of a call that is over are gone
LocalsReset ==
    /\ attrHandle' = "unbound"
    /\ dataHandle' = "unbound"
    /\ pos' = 0
    /\ width' = 0
    /\ height' = 0
    /\ info' = NoInfo
    /\ i' = 0
    /\ ts' = NoTs
    /\ frame' = NoFrame
    /\ exc' = "none"
    /\ sinkSeq' = <<>>

\* the process is killed while read_data runs; its memory and its descriptors
\* are gone, a file being saved may be left behind
Kill ==
    /\ pc \notin {"exit", "ts_call", "ts_done"}
    /\ outcome' = "killed"
    /\ pc' = "exit"
    /\ \E left \in BOOLEAN :
         materialized' = (IF left /\ pc = "loop_sink"
                          THEN materialized \cup {i} ELSE materialized)
    /\ hist' = NewHist(hist.matStart, hist.mat0)
    /\ LocalsReset
    /\ UNCHANGED <<fileVars, run, tsCall>>

\* read_data is called again with the same files and the same out_dir
Recall ==
    /\ pc = "exit"
    /\ run < MaxRuns
    /\ run' = run + 1
    /\ pc' = "rwh_open"
    /\ outcome' = "running"
    /\ hist' = NewHist(materialized, hist.mat0)
    /\ LocalsReset
    /\ UNCHANGED <<fileVars, materialized, tsCall>>

Next ==
    \/ RwhOpen \/ RwhHeight \/ RwhWidth \/ RwhFinally
    \/ DataOpen \/ InfoFirst \/ InfoSecond \/ InfoLast \/ InfoMetrics
    \/ LoopSeek \/ LoopTest \/ LoopSkip \/ LoopReadTs \/ LoopReadFrame \/ LoopSink
    \/ Except \/ Finally
    \/ Kill \/ Recall

Spec == Init /\ [][Next]_vars

(* -------------------- read_timestamp on its own ------------------------ *)
\* one call of read_timestamp(file_handle, reset_location) on an open
\* descriptor at position pos
InitTS ==
    /\ attrSize = HEIGHT_POS + 2
    /\ attrAt19 = 1
    /\ attrAt37 = 1
    /\ fileSize \in 0..MaxFileSize
    /\ pattern \in {0, 1}
    /\ materialized = {}
    /\ pc = "ts_call"
    /\ run = 1
    /\ outcome = "running"
    /\ hist = NewHist({}, {})
    /\ attrHandle = "unbound"
    /\ dataHandle = "open"
    /\ pos \in 0..MaxTsPos
    /\ width = 0
    /\ height = 0
    /\ info = NoInfo
    /\ i = 0
    /\ ts = NoTs
    /\ frame = NoFrame
    /\ exc = "none"
    /\ sinkSeq = <<>>
    /\ \E r \in BOOLEAN : tsCall = [state |-> "called", p |-> pos, reset |-> r]

\* lines 98-108
TsCall ==
    /\ pc = "ts_call"
    /\ LET r == read_timestamp(pos, tsCall.reset)
       IN  /\ pos' = r.pos
           /\ exc' = r.exc
           /\ ts' = r.ts
           /\ tsCall' = [tsCall EXCEPT !.state = "done"]
    /\ pc' = "ts_done"
    /\ UNCHANGED <<fileVars, materialized, run, attrHandle, dataHandle, width,
                   height, info, i, frame, outcome, hist, sinkSeq>>

NextTS == TsCall

SpecTS == InitTS /\ [][NextTS]_vars

(* ============================== properties ============================= *)
Stride == width * height + TS_SIZE

\* the file holds the header and n whole records, for some n >= 1
ExactSize == \E n \in 1..MaxFileSize : fileSize = HEADER_SIZE + n * Stride

\* the number of whole records of an exact file
ExactCount == CHOOSE n \in 1..MaxFileSize : fileSize = HEADER_SIZE + n * Stride

\* read_file_info was called in this call and is over
InfoOver ==
    /\ hist.dataOpens = 1
    /\ pc \in {"loop_seek", "loop_test", "loop_body", "loop_frame", "loop_sink",
               "except", "finally", "exit"}

\* the call of read_data ended by itself (it returned or raised)
CallOver == pc = "exit" /\ outcome \in {"returned", "raised"}

\* the loop of read_data ran to its end
LoopCompleted ==
    /\ CallOver
    /\ outcome = "returned"
    /\ ~hist.swallowed
    /\ info.state = "returned"

\* how often index j was handed to the sink in this call
SinkCount(j) == Cardinality({a \in 1..Len(sinkSeq) : sinkSeq[a].index = j})

\* the three little-endian unsigned 32-bit fields stored at offset p
FieldAt(p) ==
    FileByte(p) + 256 * FileByte(p + 1) + 65536 * FileByte(p + 2)
    + 16777216 * FileByte(p + 3)
StoredTimestamp(p) == <<FieldAt(p), FieldAt(p + 4), FieldAt(p + 8)>>

\* the n bytes stored at offset p
StoredBytes(p, n) == [k \in 1..n |-> FileByte(p + k - 1)]

(* C1: for width > 0, height > 0 and a data file of HEADER_SIZE + n * stride   *)
(* bytes, n >= 1, read_file_info returns frames = n, pos_first = 40 and        *)
(* pos_last = file size - stride (no open, seek or read failing).              *)
C1_ExactLayout ==
    (InfoOver /\ ~hist.ioFault /\ width > 0 /\ height > 0 /\ ExactSize)
      => /\ info.state = "returned"
         /\ info.frames = ExactCount
         /\ info.pos_first = HEADER_SIZE
         /\ info.pos_last = fileSize - Stride

(* C2: when the file size is not HEADER_SIZE + n * stride for an n >= 1,       *)
(* read_file_info fails; it never returns a truncated frame count.             *)
C2_InexactSizeFails ==
    (info.state = "returned") => ExactSize

(* C3: when frames <= 1 or dt_total = 0 the metrics computation raises no      *)
(* division error and reports fps as undefined.                                *)
C3_DegenerateFpsUndefined ==
    (/\ info.state \in {"returned", "raised"}
     /\ (info.frames <= 1 \/ info.dt_total = 0))
      => /\ info.state = "returned"
         /\ exc # "ZeroDivisionError"
         /\ ~info.fps.defined

C5_IterationPosition ==
    /\ \A k \in 1..Len(hist.iterPos) :
         hist.iterPos[k] = HEADER_SIZE + (k - 1) * Stride
    /\ \A a \in 1..Len(sinkSeq) :
         LET off == HEADER_SIZE + sinkSeq[a].index * Stride
         IN  /\ sinkSeq[a].ts = StoredTimestamp(off)
             /\ sinkSeq[a].data = StoredBytes(off + TS_SIZE, width * height)

\* a frame was handed to the sink after an earlier index was skipped
C5_Witness ==
    \E a \in 1..Len(sinkSeq) : \E j \in hist.skipped : j < sinkSeq[a].index

(* C6: a call of read_data hands to the sink only indices that were not        *)
(* materialized when the call began, none when all of 0..frames-1 were; and    *)
(* when a call's loop runs to its end, after whatever earlier calls returned,  *)
(* failed or were killed, the materialized set is what was there before the    *)
(* first call plus 0..frames-1, as after one uninterrupted call.               *)
C6_IdempotentResumable ==
    /\ \A a \in 1..Len(sinkSeq) : sinkSeq[a].index \notin hist.matStart
    /\ (info.state = "returned" /\ (0..(info.frames - 1)) \subseteq hist.matStart)
         => sinkSeq = <<>>
    /\ LoopCompleted => materialized = hist.mat0 \cup (0..(info.frames - 1))

\* a second call that found outputs of the first, skipped them, handed the
\* remaining indices to the sink and ran to its end
C6_Witness ==
    /\ run = 2
    /\ LoopCompleted
    /\ sinkSeq # <<>>
    /\ hist.skipped \ hist.mat0 # {}

(* C7: when read_data (or read_width_and_height in it) exits, every handle     *)
(* that was opened has been closed exactly once and the cleanup raised no      *)
(* error of its own.                                                           *)
C7_HandlesReleasedCleanly ==
    CallOver
      => /\ attrHandle # "open"
         /\ dataHandle # "open"
         /\ hist.attrCloses = hist.attrOpens
         /\ hist.dataCloses = hist.dataOpens
         /\ ~hist.cleanupRaised

(* C8: a call of read_data in which an error occurred ends as a failure for    *)
(* its caller.                                                                 *)
C8_ErrorsSurfaced ==
    (CallOver /\ hist.raised) => outcome = "raised"

(* C9: after read_timestamp called at position p: with reset_location the      *)
(* position is p again, also when fewer than 12 bytes were there and the call  *)
(* failed; without it and with 12 bytes there, the position is p + 12 and the  *)
(* result is the three little-endian 32-bit fields stored at p, p+4, p+8.      *)
C9_PositionAfterReadTimestamp ==
    (tsCall.state = "done")
      => /\ tsCall.reset => pos = tsCall.p
         /\ (~tsCall.reset /\ fileSize - tsCall.p >= TS_SIZE)
              => /\ pos = tsCall.p + TS_SIZE
                 /\ exc = "none"
                 /\ ts = StoredTimestamp(tsCall.p)

(* C10: whenever read_file_info returned, each iteration of the loop starts    *)
(* with a whole record before the end of the file, and every frame read for    *)
(* or handed to the sink holds exactly width * height bytes.                   *)
C10_FullPixelBuffer ==
    /\ (pc = "loop_body") => pos + Stride <= fileSize
    /\ (pc = "loop_sink") => Len(frame) = width * height
    /\ \A a \in 1..Len(sinkSeq) : Len(sinkSeq[a].data) = width * height

\* a frame was handed to the sink from a file that ends inside a record
C10_Witness ==
    /\ sinkSeq # <<>>
    /\ (fileSize - HEADER_SIZE) % Stride # 0

====
